---------------------------- MODULE Spec2Model ----------------------------
(***************************************************************************)
(* A model of the POI deduplication / merge engine of gpx-poi-tool.        *)
(*                                                                         *)
(* The repository holds two implementations of the engine:                 *)
(*   "core"  src/poi_core.py (POI, SpatialGrid) + src/poi_manager.py        *)
(*   "tool"  src/poi-tool.py (the single-file program)                      *)
(* The variable impl says which of the two a behaviour runs.               *)
(*                                                                         *)
(* Numbers.  Coordinates are floats (degrees) in the source.  The model    *)
(* measures them in integer units of 1/(UnitsPerMetre * 111320) degree, so *)
(* that SpatialGrid's cell_size_meters / 111320.0 degrees is exactly       *)
(* cell_size_meters * UnitsPerMetre units, and a distance of m metres is   *)
(* m * UnitsPerMetre units (the source's Haversine takes a degree of       *)
(* latitude as 111195 m, the grid as 111320 m: the model takes the grid's  *)
(* figure for both, a difference of 0.1%).  Input coordinates are          *)
(* multiples of UnitsPerMetre units, which keeps the means taken by        *)
(* merge_with exact for three successive merges.                           *)
(***************************************************************************)
EXTENDS Integers, Sequences, FiniteSets, TLC

VARIABLES
  impl,                 \* "core" or "tool": which implementation runs
  duplicate_threshold,  \* GPXManager.duplicate_threshold, in units
  mode,                 \* "idle", or the operation the behaviour exercises
  call,                 \* the last call of a pure method: its arguments and result
  target_pois,          \* merge: the target list handed to the merge
  source_pois,          \* the incoming records processed so far, in order
  result_pois,          \* result_pois of the original (naive) algorithm
  result_pois_opt,      \* result_pois of the optimized (grid) algorithm
  grid,                 \* the SpatialGrid of the optimized algorithm
  processed_indices,    \* _deduplicate_pois_optimized's processed_indices
  unambiguous,          \* history: no incoming record so far had two candidates
  input_pois,           \* lookup_elevations: its argument pois
  pois_needing_elevation, \* lookup_elevations: the records selected for lookup
  updated_pois,         \* lookup_elevations: the working list it returns
  batch_start,          \* lookup_elevations: i, the start of the current batch
  batch,                \* _lookup_elevation_batch: its argument pois
  attempt,              \* _lookup_elevation_batch: the loop variable attempt
  timeout,              \* _lookup_elevation_batch: timeout, in quarter seconds
  responses,            \* history: the outcome of each request of this batch
  timeouts,             \* history: the timeout each request of this batch used
  sleeps,               \* history: the seconds slept after each request
  batch_updated,        \* what _lookup_elevation_batch returned
  pace,                 \* tenths of a second slept after the last batch
  cache,                \* DistanceCache.cache: key -> distance
  access_order,         \* DistanceCache.access_order
  max_size,             \* DistanceCache.max_size
  calls_made            \* history: the get_distance calls made on the cache

\* The state of the merge engine and the state of the elevation lookup.
engine_vars == <<duplicate_threshold, target_pois, source_pois, result_pois,
                 result_pois_opt, grid, processed_indices, unambiguous>>

lookup_vars == <<input_pois, pois_needing_elevation, updated_pois, batch_start,
                 batch, attempt, timeout, responses, timeouts, sleeps,
                 batch_updated, pace>>

cache_vars == <<cache, access_order, max_size, calls_made>>

vars == <<impl, mode, call, engine_vars, lookup_vars, cache_vars>>

-----------------------------------------------------------------------------
(* Optional values, strings *)

\* Optional[X]: None is the empty sequence, a value x is <<x>>.
None == <<>>

Some(x) == <<x>>

Abs(x) == IF x < 0 THEN -x ELSE x

\* A str is a sequence of one-character strings.  str.lower() over the
\* letters the model's names use.
LowerChar(c) ==
  CASE c = "H" -> "h"
    [] c = "C" -> "c"
    [] c = "W" -> "w"
    [] c = "L" -> "l"
    [] c = "P" -> "p"
    [] c = "I" -> "i"
    [] OTHER -> c

Lower(s) == [i \in 1..Len(s) |-> LowerChar(s[i])]

\* str.strip(): leading and trailing blanks removed.
RECURSIVE LStrip(_)
LStrip(s) == IF s # <<>> /\ Head(s) = " " THEN LStrip(Tail(s)) ELSE s

RECURSIVE RStrip(_)
RStrip(s) ==
  IF s # <<>> /\ s[Len(s)] = " " THEN RStrip(SubSeq(s, 1, Len(s) - 1)) ELSE s

Strip(s) == RStrip(LStrip(s))

\* sub in s, for strings.
Contains(s, sub) ==
  \E i \in 1..(Len(s) - Len(sub) + 1) : SubSeq(s, i, i + Len(sub) - 1) = sub

\* Truthiness of an Optional[str]: None and "" are false.
Truthy(o) == o # None /\ o[1] # <<>>

-----------------------------------------------------------------------------
(* POI *)

UnitsPerMetre == 8

Metres(m) == m * UnitsPerMetre

MkPOI(lat, lon, name, desc, ele, link, extensions) ==
  [lat |-> lat, lon |-> lon, name |-> name, desc |-> desc, ele |-> ele,
   link |-> link, extensions |-> extensions]

\* 1 / cos(lat), as Haversine's cos(lat1) * cos(lat2) weighs the longitude
\* difference.  A step function: exact at the equator, at 60 degrees (2)
\* and at 75.52 degrees (4), the latitudes the model's records lie near.
Lat60 == Metres(6625000)

Lat75 == Metres(8375000)

SecLat(lat) ==
  IF Abs(lat) >= Lat75 THEN 4 ELSE IF Abs(lat) >= Lat60 THEN 2 ELSE 1

\* Beyond DistCap units of latitude or longitude difference the distance is
\* reported as DistFar: more than any distance bound the model uses
\* (DistCap units of longitude are more than 340 m at every model latitude).
DistCap == Metres(1375)

DistFar == 16 * DistCap * DistCap + 1

\* POI.distance_to: 16 times the square of the distance in units.  For the
\* separations the model compares with a threshold Haversine's
\* R * c is sqrt(dlat^2 + cos(lat1) * cos(lat2) * dlon^2) to 1 part in 10^6.
distance_to(a, b) ==
  LET dlat == b.lat - a.lat
      dlon == b.lon - a.lon
  IN  IF Abs(dlat) > DistCap \/ Abs(dlon) > DistCap
      THEN DistFar
      ELSE 16 * dlat * dlat
           + (16 \div (SecLat(a.lat) * SecLat(b.lat))) * dlon * dlon

\* distance <= threshold, on the values distance_to returns.
DistLe(d, threshold) == d <= 16 * threshold * threshold

\* The default of is_duplicate's distance_threshold parameter.
DefaultThreshold(im) == IF im = "core" THEN Metres(100) ELSE Metres(50)

NameKey(p) == Lower(Strip(p.name))

\* POI.is_duplicate(self = a, other = b, distance_threshold).
is_duplicate(im, a, b, distance_threshold) ==
  IF im = "core"
  THEN DistLe(distance_to(a, b), distance_threshold)
  ELSE \/ NameKey(a) = NameKey(b)
       \/ DistLe(distance_to(a, b), distance_threshold)

Waypoint == <<"w", "a", "y", "p", "o", "i", "n", "t">>

\* A faulty variant of MergedCoords: a's coordinates whenever a has an
\* elevation, also when b has one too.
MergedCoords_a_first(a, b) ==
  IF a.ele # None THEN <<a.lat, a.lon>>
  ELSE IF b.ele # None THEN <<b.lat, b.lon>>
  ELSE <<(a.lat + b.lat) \div 2, (a.lon + b.lon) \div 2>>

\* The coordinates merge_with gives the merged record.
MergedCoords(a, b) ==
  IF a.ele # None /\ b.ele = None THEN <<a.lat, a.lon>>
  ELSE IF b.ele # None /\ a.ele = None THEN <<b.lat, b.lon>>
  ELSE <<(a.lat + b.lat) \div 2, (a.lon + b.lon) \div 2>>

\* A faulty variant of MergedName: b's name also when the names are
\* equally long.
MergedName_ties_b(im, a, b) ==
  IF im = "core"
  THEN IF Len(b.name) >= Len(a.name) \/ Contains(Lower(a.name), Waypoint)
       THEN b.name ELSE a.name
  ELSE IF Len(a.name) > Len(b.name) THEN a.name ELSE b.name

MergedName(im, a, b) ==
  IF im = "core"
  THEN IF Len(b.name) > Len(a.name) \/ Contains(Lower(a.name), Waypoint)
       THEN b.name ELSE a.name
  ELSE IF Len(a.name) >= Len(b.name) THEN a.name ELSE b.name

MergedDesc(im, a, b) ==
  IF im = "core"
  THEN IF Len(a.desc) > Len(b.desc) THEN a.desc ELSE b.desc
  ELSE IF Len(a.desc) >= Len(b.desc) THEN a.desc ELSE b.desc

\* A faulty variant of MergedEle: the mean of the two elevations when both
\* records have one.
MergedEle_averaged(a, b) ==
  IF a.ele # None /\ b.ele # None THEN Some((a.ele[1] + b.ele[1]) \div 2)
  ELSE IF a.ele # None THEN a.ele ELSE b.ele

MergedEle(a, b) == IF a.ele # None THEN a.ele ELSE b.ele

MergedLink(a, b) == IF Truthy(a.link) THEN a.link ELSE b.link

\* poi-tool.py's POI has no extensions field.
MergedExtensions(im, a, b) ==
  IF im = "tool" THEN None
  ELSE IF ~Truthy(a.extensions) /\ Truthy(b.extensions) THEN b.extensions
  ELSE IF Truthy(a.extensions) /\ Truthy(b.extensions)
          /\ Len(b.extensions[1]) > Len(a.extensions[1]) THEN b.extensions
  ELSE a.extensions

\* POI.merge_with(self = a, other = b).
merge_with(im, a, b) ==
  LET c == MergedCoords(a, b)
  IN  MkPOI(c[1], c[2], MergedName(im, a, b), MergedDesc(im, a, b),
            MergedEle(a, b), MergedLink(a, b), MergedExtensions(im, a, b))


-----------------------------------------------------------------------------
(* SpatialGrid *)

\* int(x / c): Python's int() truncates toward zero.
TruncDiv(x, c) == IF x >= 0 THEN x \div c ELSE -((-x) \div c)

\* SpatialGrid(cell_size_meters).  cell_size is cell_size_degrees in units;
\* grid is the dict of buckets (a function on the cells that have one);
\* pois is the list self.pois, each entry None or Some(poi).
SpatialGrid(cell_size_meters) ==
  [cell_size |-> cell_size_meters, grid |-> <<>>, pois |-> <<>>]

_get_grid_coords(g, lat, lon) ==
  <<TruncDiv(lat, g.cell_size), TruncDiv(lon, g.cell_size)>>

\* The nine cells, in the order of the two nested loops.
_get_neighbor_cells(c) ==
  [k \in 1..9 |-> <<c[1] + ((k - 1) \div 3) - 1, c[2] + ((k - 1) % 3) - 1>>]

\* Indices are Python's: index i is entry i + 1 of a TLA+ sequence.
add_poi(g, poi, index) ==
  LET c == _get_grid_coords(g, poi.lat, poi.lon)
      bucket == IF c \in DOMAIN g.grid THEN g.grid[c] ELSE <<>>
      padded == IF Len(g.pois) <= index
                THEN g.pois \o [k \in 1..(index - Len(g.pois) + 1) |-> None]
                ELSE g.pois
  IN  [cell_size |-> g.cell_size,
       grid |-> [d \in (DOMAIN g.grid) \cup {c} |->
                   IF d = c THEN Append(bucket, index) ELSE g.grid[d]],
       pois |-> [padded EXCEPT ![index + 1] = Some(poi)]]

\* The (index, distance) pairs of one bucket that pass the distance test.
RECURSIVE BucketNearby(_, _, _, _)
BucketNearby(g, poi, max_distance_meters, bucket) ==
  IF bucket = <<>> THEN <<>>
  ELSE LET poi_index == Head(bucket)
           rest == BucketNearby(g, poi, max_distance_meters, Tail(bucket))
       IN  IF poi_index < Len(g.pois) /\ g.pois[poi_index + 1] # None
              /\ DistLe(distance_to(poi, g.pois[poi_index + 1][1]),
                        max_distance_meters)
           THEN <<<<poi_index, distance_to(poi, g.pois[poi_index + 1][1])>>>>
                \o rest
           ELSE rest

\* The list nearby before it is sorted: cells in neighbour order.
RECURSIVE CellsNearby(_, _, _, _)
CellsNearby(g, poi, max_distance_meters, cells) ==
  IF cells = <<>> THEN <<>>
  ELSE (IF Head(cells) \in DOMAIN g.grid
        THEN BucketNearby(g, poi, max_distance_meters, g.grid[Head(cells)])
        ELSE <<>>)
       \o CellsNearby(g, poi, max_distance_meters, Tail(cells))

\* sorted(nearby, key = distance): a stable sort.  Distances that are equal
\* in the model keep the order of collection; in the source two such
\* distances may differ in the last bit of the float and sort either way.
RECURSIVE InsertByDistance(_, _)
InsertByDistance(sorted, x) ==
  IF sorted = <<>> THEN <<x>>
  ELSE IF x[2] < Head(sorted)[2] THEN <<x>> \o sorted
  ELSE <<Head(sorted)>> \o InsertByDistance(Tail(sorted), x)

RECURSIVE SortByDistance(_)
SortByDistance(nearby) ==
  IF nearby = <<>> THEN <<>>
  ELSE InsertByDistance(SortByDistance(SubSeq(nearby, 1, Len(nearby) - 1)),
                        nearby[Len(nearby)])

find_nearby_pois(g, poi, max_distance_meters) ==
  SortByDistance(
    CellsNearby(g, poi, max_distance_meters,
                _get_neighbor_cells(_get_grid_coords(g, poi.lat, poi.lon))))

-----------------------------------------------------------------------------
(* GPXManager: the merge and deduplication algorithms *)

\* Index (1-based) of the first record of result that is a duplicate of poi,
\* 0 when there is none: the inner loop of the original algorithms.
RECURSIVE FirstDuplicate(_, _, _, _)
FirstDuplicate(im, result, poi, i) ==
  IF i > Len(result) THEN 0
  ELSE IF is_duplicate(im, poi, result[i], DefaultThreshold(im)) THEN i
  ELSE FirstDuplicate(im, result, poi, i + 1)

\* A faulty variant of merge_original_step: a record with no duplicate is
\* put in front of the accepted records.
merge_original_step_in_front(im, result, source_poi) ==
  LET D == {i \in 1..Len(result) :
              is_duplicate(im, source_poi, result[i], DefaultThreshold(im))}
  IN  IF D # {}
      THEN LET i == CHOOSE i \in D : \A j \in D : i <= j
           IN  [result EXCEPT ![i] = merge_with(im, result[i], source_poi)]
      ELSE <<source_poi>> \o result

\* A faulty variant of merge_original_step: the scan does not stop at the
\* first duplicate, so the record is merged into the last one.
merge_original_step_last(im, result, source_poi) ==
  LET D == {i \in 1..Len(result) :
              is_duplicate(im, source_poi, result[i], DefaultThreshold(im))}
  IN  IF D # {}
      THEN LET i == CHOOSE i \in D : \A j \in D : j <= i
           IN  [result EXCEPT ![i] = merge_with(im, result[i], source_poi)]
      ELSE Append(result, source_poi)

\* One iteration of _merge_pois_original's loop over source_pois.
merge_original_step(im, result, source_poi) ==
  LET i == FirstDuplicate(im, result, source_poi, 1)
  IN  IF i > 0
      THEN [result EXCEPT ![i] = merge_with(im, result[i], source_poi)]
      ELSE Append(result, source_poi)

\* A faulty variant of dedupe_original_step: the test of duplicate_found is
\* inverted, so a record with no duplicate is dropped and a merged one is
\* appended as well.
dedupe_original_step_inverted(im, result, poi) ==
  LET i == FirstDuplicate(im, result, poi, 1)
  IN  IF i > 0
      THEN Append([result EXCEPT ![i] = merge_with(im, result[i], poi)], poi)
      ELSE result

\* One iteration of _deduplicate_pois_original's loop over pois[1:].
dedupe_original_step(im, result, poi) ==
  LET i == FirstDuplicate(im, result, poi, 1)
  IN  IF i > 0
      THEN [result EXCEPT ![i] = merge_with(im, result[i], poi)]
      ELSE Append(result, poi)

\* Position in nearby (1-based) of the first pair whose index is in range and
\* whose result record is a duplicate of poi, 0 when there is none: the
\* inner loop of the optimized algorithms.
RECURSIVE FirstNearbyDuplicate(_, _, _, _, _)
FirstNearbyDuplicate(im, result, poi, nearby, k) ==
  IF k > Len(nearby) THEN 0
  ELSE IF nearby[k][1] < Len(result)
          /\ is_duplicate(im, poi, result[nearby[k][1] + 1],
                          DefaultThreshold(im))
       THEN k
  ELSE FirstNearbyDuplicate(im, result, poi, nearby, k + 1)

\* One iteration of _merge_pois_optimized's loop over source_pois: the new
\* result_pois and grid.
merge_optimized_step(im, threshold, result, g, source_poi) ==
  LET nearby == find_nearby_pois(g, source_poi, threshold)
      k == FirstNearbyDuplicate(im, result, source_poi, nearby, 1)
  IN  IF k > 0
      THEN [result |-> [result EXCEPT ![nearby[k][1] + 1] =
                          merge_with(im, result[nearby[k][1] + 1], source_poi)],
            grid |-> g]
      ELSE [result |-> Append(result, source_poi),
            grid |-> add_poi(g, source_poi, Len(result))]

\* One iteration of _deduplicate_pois_optimized's loop over pois.
dedupe_optimized_step(im, threshold, result, g, poi) ==
  LET nearby == find_nearby_pois(g, poi, threshold)
      k == FirstNearbyDuplicate(im, result, poi, nearby, 1)
  IN  IF k > 0
      THEN [result |-> [result EXCEPT ![nearby[k][1] + 1] =
                          merge_with(im, result[nearby[k][1] + 1], poi)],
            grid |-> g]
      ELSE [result |-> Append(result, poi),
            grid |-> add_poi(g, poi, Len(result))]

\* _merge_pois_optimized's loop that indexes the target records.
RECURSIVE IndexAll(_, _, _)
IndexAll(g, pois, i) ==
  IF i >= Len(pois) THEN g
  ELSE IndexAll(add_poi(g, pois[i + 1], i), pois, i + 1)

\* Which branch merge_pois takes for a target of n and a source of m records.
MergeSwitch == 10000

\* A faulty variant of merge_pois_route: >= for >.
merge_pois_route_ge(n, m) ==
  IF m = 0 THEN "copy_target"
  ELSE IF n = 0 THEN "copy_source"
  ELSE IF n * m >= MergeSwitch THEN "optimized"
  ELSE "original"

merge_pois_route(n, m) ==
  IF m = 0 THEN "copy_target"
  ELSE IF n = 0 THEN "copy_source"
  ELSE IF n * m > MergeSwitch THEN "optimized"
  ELSE "original"

\* Which branch deduplicate_pois takes for a list of n records.
DedupeSwitch == 500

deduplicate_pois_route(n) ==
  IF n = 0 THEN "empty"
  ELSE IF n = 1 THEN "copy"
  ELSE IF n > DedupeSwitch THEN "optimized"
  ELSE "original"

\* _merge_pois_original's loop over source_pois from its k-th record on.
RECURSIVE _merge_pois_original(_, _, _, _)
_merge_pois_original(im, result, source, k) ==
  IF k > Len(source) THEN result
  ELSE _merge_pois_original(im, merge_original_step(im, result, source[k]),
                            source, k + 1)

\* _merge_pois_optimized's loop over source_pois from its k-th record on.
RECURSIVE _merge_pois_optimized(_, _, _, _, _, _)
_merge_pois_optimized(im, threshold, result, g, source, k) ==
  IF k > Len(source) THEN result
  ELSE LET r == merge_optimized_step(im, threshold, result, g, source[k])
       IN  _merge_pois_optimized(im, threshold, r.result, r.grid, source,
                                 k + 1)

\* A variant of merge_pois that folds the source into an empty target as
\* well.
merge_pois_folds_empty(im, threshold, target, source) ==
  IF source = <<>> THEN target
  ELSE IF Len(target) * Len(source) > MergeSwitch
  THEN _merge_pois_optimized(im, threshold, target,
         IndexAll(SpatialGrid(threshold * 3), target, 0), source, 1)
  ELSE _merge_pois_original(im, target, source, 1)

\* merge_pois: what it returns for a target and a source list.
merge_pois(im, threshold, target, source) ==
  IF source = <<>> THEN target
  ELSE IF target = <<>> THEN source
  ELSE IF Len(target) * Len(source) > MergeSwitch
  THEN _merge_pois_optimized(im, threshold, target,
         IndexAll(SpatialGrid(threshold * 3), target, 0), source, 1)
  ELSE _merge_pois_original(im, target, source, 1)

\* _deduplicate_pois_original's loop over pois[1:] from the k-th record of
\* pois on.
RECURSIVE _deduplicate_pois_original(_, _, _, _)
_deduplicate_pois_original(im, result, pois, k) ==
  IF k > Len(pois) THEN result
  ELSE _deduplicate_pois_original(im, dedupe_original_step(im, result, pois[k]),
                                  pois, k + 1)

\* _deduplicate_pois_optimized's loop over pois from its k-th record on.
RECURSIVE _deduplicate_pois_optimized(_, _, _, _, _, _)
_deduplicate_pois_optimized(im, threshold, result, g, pois, k) ==
  IF k > Len(pois) THEN result
  ELSE LET r == dedupe_optimized_step(im, threshold, result, g, pois[k])
       IN  _deduplicate_pois_optimized(im, threshold, r.result, r.grid, pois,
                                       k + 1)

\* deduplicate_pois: what it returns for a list.
deduplicate_pois(im, threshold, pois) ==
  IF Len(pois) <= 1 THEN pois
  ELSE IF Len(pois) > DedupeSwitch
  THEN _deduplicate_pois_optimized(im, threshold, <<>>,
         SpatialGrid(threshold * 3), pois, 1)
  ELSE _deduplicate_pois_original(im, <<pois[1]>>, pois, 2)

-----------------------------------------------------------------------------
(* Inputs of the model *)

Hut == <<"H", "u", "t">>

hut == <<"h", "u", "t">>

HutSp == <<"H", "u", "t", " ">>

Cabin == <<"C", "a", "b", "i", "n">>

Lodge == <<"L", "o", "d", "g", "e">>

Peak == <<"P", "e", "a", "k">>

Col == <<"C", "o", "l">>

WaypointName == <<"W", "a", "y", "p", "o", "i", "n", "t">>

\* The records of S as implementation im holds them: poi-tool.py's POI has
\* no extensions field (None in the model).
POIsOf(im, S) ==
  {IF im = "tool" THEN [p EXCEPT !.extensions = None] ELSE p : p \in S}

\* A record with only the required fields and an elevation.
Plain(lat, lon, name, ele) == MkPOI(lat, lon, name, <<>>, ele, None, None)

\* A latitude of 75.52 degrees, where cos(lat) = 1/4: 28024 cells of 300 m.
LatHigh == 28024 * Metres(300)

\* The thresholds a caller configures or passes: 50 m and 100 m.
Thresholds == {Metres(50), Metres(100)}

\* is_duplicate is called on pairs of these: 60 m, 80 m, 100 m (a 3-4-5
\* triangle), 100.8 m and 10 km apart, under every pair of names.
DupPOIs ==
  {Plain(lat, lon, name, None) :
     lat \in {0, Metres(60)}, lon \in {0, Metres(80), Metres(81), Metres(10000)},
     name \in {Hut, hut, HutSp, Cabin}}

\* merge_with is called on pairs of these.
MergePOIs ==
  {MkPOI(0, lon, name, x[1], ele, x[2], x[3]) :
     lon \in {0, Metres(80)},
     name \in {Hut, hut, HutSp, Cabin, WaypointName},
     ele \in {None, Some(500), Some(520)},
     x \in {<<<<>>, None, None>>, <<<<"d">>, Some(<<"u">>), Some(<<"x">>)>>}}

\* The records the merge and deduplication runs draw from.
\*   FA, FB 100 m apart; FC 150 m from FA, 50 m from FB, 100 m from the
\*   mean of FA and FB; FD 50 m from FA with FA's name and an elevation;
\*   FE 10 km away with FA's name; FH1, FH2 100 m apart at 75.52 degrees.
FA == Plain(0, 0, Hut, None)

FB == MkPOI(0, Metres(100), Cabin, <<"d">>, None, Some(<<"u">>), Some(<<"x">>))

FC == Plain(0, Metres(150), Lodge, None)

FD == Plain(0, Metres(50), HutSp, Some(500))

FE == Plain(0, Metres(10000), hut, Some(520))

FH1 == Plain(LatHigh, Metres(250), Peak, None)

FH2 == Plain(LatHigh, Metres(650), Col, None)

FoldPOIs == {FA, FB, FC, FD, FE, FH1, FH2}

\* Bounds on the lengths of the lists of a run.
MaxTarget == 1

MaxSource == 2

MaxDedupe == 4

\* The records a SpatialGrid is filled with and probed by, among them
\* records on a cell boundary, at negative coordinates and at high latitude.
GridPOIs ==
  {Plain(p[1], p[2], Hut, None) :
     p \in {<<0, 0>>, <<0, Metres(100)>>, <<0, Metres(300)>>,
            <<0, Metres(400)>>, <<0, -Metres(100)>>, <<Metres(60), Metres(80)>>,
            <<LatHigh, Metres(250)>>, <<LatHigh, Metres(650)>>}}

MaxGridPois == 2

\* Every list of at most n records of S.
RECURSIVE ListsUpTo(_, _)
ListsUpTo(S, n) ==
  IF n = 0 THEN {<<>>}
  ELSE LET shorter == ListsUpTo(S, n - 1)
       IN  shorter \cup {Append(l, x) : l \in shorter, x \in S}

\* The list lengths merge_pois and deduplicate_pois are routed for.
RouteSizes == {0, 1, 2, 20, 100, 101, 499, 500, 501, 10000, 10001}

-----------------------------------------------------------------------------
(* The state after construction *)

NoCall == [fn |-> "none"]

Init ==
  /\ impl \in {"core", "tool"}
  /\ duplicate_threshold = Metres(100)
  /\ mode = "idle"
  /\ call = NoCall
  /\ target_pois = <<>>
  /\ source_pois = <<>>
  /\ result_pois = <<>>
  /\ result_pois_opt = <<>>
  /\ grid = SpatialGrid(3 * Metres(100))
  /\ processed_indices = {}
  /\ unambiguous = TRUE
  /\ input_pois = <<>>
  /\ pois_needing_elevation = <<>>
  /\ updated_pois = <<>>
  /\ batch_start = 0
  /\ batch = <<>>
  /\ attempt = 0
  /\ timeout = 0
  /\ responses = <<>>
  /\ timeouts = <<>>
  /\ sleeps = <<>>
  /\ batch_updated = <<>>
  /\ pace = 0
  /\ cache = <<>>
  /\ access_order = <<>>
  /\ max_size = 10000
  /\ calls_made = 0

\* A caller sets manager.duplicate_threshold before it runs an operation.
Configure(t) ==
  /\ mode = "idle"
  /\ duplicate_threshold' = t
  /\ UNCHANGED <<impl, mode, call, target_pois, source_pois, result_pois,
                 result_pois_opt, grid, processed_indices, unambiguous,
                 lookup_vars, cache_vars>>

-----------------------------------------------------------------------------
(* Calls of POI's methods *)

CallIsDuplicate(a, b, t) ==
  /\ mode = "idle"
  /\ mode' = "poi"
  /\ call' = [fn |-> "is_duplicate", a |-> a, b |-> b, t |-> t,
              out |-> is_duplicate(impl, a, b, t)]
  /\ UNCHANGED <<impl, duplicate_threshold, target_pois, source_pois,
                 result_pois, result_pois_opt, grid, processed_indices,
                 unambiguous,
                 lookup_vars, cache_vars>>

CallMergeWith(a, b) ==
  /\ mode = "idle"
  /\ mode' = "poi"
  /\ call' = [fn |-> "merge_with", a |-> a, b |-> b, t |-> 0,
              out |-> merge_with(impl, a, b)]
  /\ UNCHANGED <<impl, duplicate_threshold, target_pois, source_pois,
                 result_pois, result_pois_opt, grid, processed_indices,
                 unambiguous,
                 lookup_vars, cache_vars>>

\* (The guard mode = "idle" stands before each quantifier so that the inputs
\* are enumerated in the idle state only.)
NextPoi ==
  \/ /\ mode = "idle"
     /\ \E a \in POIsOf(impl, DupPOIs), b \in POIsOf(impl, DupPOIs),
           t \in Thresholds : CallIsDuplicate(a, b, t)
  \/ /\ mode = "idle"
     /\ \E a \in POIsOf(impl, MergePOIs), b \in POIsOf(impl, MergePOIs) :
           CallMergeWith(a, b)

SpecPoi == Init /\ [][NextPoi]_vars

-----------------------------------------------------------------------------
(* Routing of merge_pois and deduplicate_pois *)

CallMergePois(n, m) ==
  /\ mode = "idle"
  /\ mode' = "route"
  /\ call' = [fn |-> "merge_pois", n |-> n, m |-> m,
              out |-> merge_pois_route(n, m)]
  /\ UNCHANGED <<impl, duplicate_threshold, target_pois, source_pois,
                 result_pois, result_pois_opt, grid, processed_indices,
                 unambiguous,
                 lookup_vars, cache_vars>>

\* merge_pois(target, source) on lists of records.
CallMergePoisOn(target, source) ==
  /\ mode = "idle"
  /\ mode' = "route"
  /\ call' = [fn |-> "merge_pois_on", target |-> target, source |-> source,
              out |-> merge_pois(impl, duplicate_threshold, target, source)]
  /\ UNCHANGED <<impl, engine_vars, lookup_vars, cache_vars>>

CallDeduplicatePois(n) ==
  /\ mode = "idle"
  /\ mode' = "route"
  /\ call' = [fn |-> "deduplicate_pois", n |-> n, m |-> 0,
              out |-> deduplicate_pois_route(n)]
  /\ UNCHANGED <<impl, duplicate_threshold, target_pois, source_pois,
                 result_pois, result_pois_opt, grid, processed_indices,
                 unambiguous,
                 lookup_vars, cache_vars>>

NextRoute ==
  \/ /\ mode = "idle"
     /\ \E n \in RouteSizes, m \in RouteSizes : CallMergePois(n, m)
  \/ \E n \in RouteSizes : CallDeduplicatePois(n)
  \/ /\ mode = "idle"
     /\ \E target \in ListsUpTo(POIsOf(impl, FoldPOIs), MaxTarget),
           source \in ListsUpTo(POIsOf(impl, FoldPOIs), MaxSource) :
           CallMergePoisOn(target, source)

SpecRoute == Init /\ [][NextRoute]_vars

-----------------------------------------------------------------------------
(* SpatialGrid on its own: a grid of cell size 3 * d is filled and probed *)

GridNew ==
  /\ mode = "idle"
  /\ mode' = "grid"
  /\ grid' = SpatialGrid(3 * duplicate_threshold)
  /\ UNCHANGED <<impl, duplicate_threshold, call, target_pois, source_pois,
                 result_pois, result_pois_opt, processed_indices, unambiguous,
                 lookup_vars, cache_vars>>

\* grid.add_poi(poi, len(grid.pois)): the next free index, as the engine does.
GridAdd(poi) ==
  /\ mode = "grid"
  /\ call = NoCall
  /\ Len(grid.pois) < MaxGridPois
  /\ grid' = add_poi(grid, poi, Len(grid.pois))
  /\ UNCHANGED <<impl, duplicate_threshold, mode, call, target_pois,
                 source_pois, result_pois, result_pois_opt, processed_indices,
                 unambiguous,
                 lookup_vars, cache_vars>>

\* The number of entries in the buckets of a grid.
RECURSIVE BucketEntries(_, _)
BucketEntries(g, cells) ==
  IF cells = {} THEN 0
  ELSE LET c == CHOOSE d \in cells : TRUE
       IN  Len(g.grid[c]) + BucketEntries(g, cells \ {c})

\* How often a behaviour inserts a record again at the index it has.
MaxReAdd == 1

\* grid.add_poi(grid.pois[index], index): a record that is in the grid is
\* inserted again at its index (re-indexing).
GridReAdd(index) ==
  /\ mode = "grid"
  /\ call = NoCall
  /\ index < Len(grid.pois)
  /\ BucketEntries(grid, DOMAIN grid.grid) < Len(grid.pois) + MaxReAdd
  /\ grid' = add_poi(grid, grid.pois[index + 1][1], index)
  /\ UNCHANGED <<impl, duplicate_threshold, mode, call, target_pois,
                 source_pois, result_pois, result_pois_opt, processed_indices,
                 unambiguous,
                 lookup_vars, cache_vars>>

\* grid.find_nearby_pois(poi, d).
GridQuery(poi) ==
  /\ mode = "grid"
  /\ call = NoCall
  /\ call' = [fn |-> "find_nearby_pois", a |-> poi, t |-> duplicate_threshold,
              out |-> find_nearby_pois(grid, poi, duplicate_threshold)]
  /\ UNCHANGED <<impl, duplicate_threshold, mode, target_pois, source_pois,
                 result_pois, result_pois_opt, grid, processed_indices,
                 unambiguous,
                 lookup_vars, cache_vars>>

NextGrid ==
  \/ \E t \in Thresholds : Configure(t)
  \/ GridNew
  \/ \E poi \in POIsOf(impl, GridPOIs) : GridAdd(poi)
  \/ \E index \in 0..(MaxGridPois - 1) : GridReAdd(index)
  \/ \E poi \in POIsOf(impl, GridPOIs) : GridQuery(poi)

SpecGrid == Init /\ [][NextGrid]_vars

-----------------------------------------------------------------------------
(* Merge and deduplication runs.  A behaviour runs the original and the    *)
(* optimized algorithm side by side on the same input, one incoming record *)
(* per step; the list processed so far is a complete input, so every state *)
(* of a run holds what both algorithms return for it.                      *)

\* The number of records of result that are duplicates of poi.
Candidates(im, result, poi) ==
  {i \in 1..Len(result) : is_duplicate(im, poi, result[i], DefaultThreshold(im))}

AtMostOneCandidate(poi) ==
  /\ Cardinality(Candidates(impl, result_pois, poi)) <= 1
  /\ Cardinality(Candidates(impl, result_pois_opt, poi)) <= 1

\* _merge_pois_original and _merge_pois_optimized up to their loops over
\* source_pois: result_pois = target_pois.copy(), the targets indexed.
MergeStart(target) ==
  /\ mode = "idle"
  /\ mode' = "merge"
  /\ target_pois' = target
  /\ result_pois' = target
  /\ result_pois_opt' = target
  /\ grid' = IndexAll(SpatialGrid(duplicate_threshold * 3), target, 0)
  /\ UNCHANGED <<impl, duplicate_threshold, call, source_pois,
                 processed_indices, unambiguous,
                 lookup_vars, cache_vars>>

\* Both merges process the next source record.
MergeStep(source_poi) ==
  /\ mode = "merge"
  /\ Len(source_pois) < MaxSource
  /\ source_pois' = Append(source_pois, source_poi)
  /\ result_pois' = merge_original_step(impl, result_pois, source_poi)
  /\ LET r == merge_optimized_step(impl, duplicate_threshold, result_pois_opt,
                                   grid, source_poi)
     IN  result_pois_opt' = r.result /\ grid' = r.grid
  /\ unambiguous' = (unambiguous /\ AtMostOneCandidate(source_poi))
  /\ UNCHANGED <<impl, duplicate_threshold, mode, call, target_pois,
                 processed_indices,
                 lookup_vars, cache_vars>>

\* Both deduplications take pois[0]: result_pois = [pois[0]] in the
\* original, the first iteration (on an empty grid) in the optimized.
DedupeFirst(poi) ==
  /\ mode = "idle"
  /\ mode' = "dedupe"
  /\ source_pois' = <<poi>>
  /\ result_pois' = <<poi>>
  /\ LET r == dedupe_optimized_step(impl, duplicate_threshold, <<>>,
                                    SpatialGrid(duplicate_threshold * 3), poi)
     IN  result_pois_opt' = r.result /\ grid' = r.grid
  /\ processed_indices' = {0}
  /\ UNCHANGED <<impl, duplicate_threshold, call, target_pois, unambiguous,
                 lookup_vars, cache_vars>>

\* Both deduplications process the next record of pois.
DedupeStep(poi) ==
  /\ mode = "dedupe"
  /\ Len(source_pois) < MaxDedupe
  /\ Len(source_pois) \notin processed_indices
  /\ source_pois' = Append(source_pois, poi)
  /\ result_pois' = dedupe_original_step(impl, result_pois, poi)
  /\ LET r == dedupe_optimized_step(impl, duplicate_threshold, result_pois_opt,
                                    grid, poi)
     IN  result_pois_opt' = r.result /\ grid' = r.grid
  /\ processed_indices' = processed_indices \cup {Len(source_pois)}
  /\ unambiguous' = (unambiguous /\ AtMostOneCandidate(poi))
  /\ UNCHANGED <<impl, duplicate_threshold, mode, call, target_pois,
                 lookup_vars, cache_vars>>

NextFold ==
  \/ \E t \in Thresholds : Configure(t)
  \/ /\ mode = "idle"
     /\ \E target \in ListsUpTo(POIsOf(impl, FoldPOIs), MaxTarget) :
           MergeStart(target)
  \/ \E poi \in POIsOf(impl, FoldPOIs) : MergeStep(poi)
  \/ \E poi \in POIsOf(impl, FoldPOIs) : DedupeFirst(poi)
  \/ \E poi \in POIsOf(impl, FoldPOIs) : DedupeStep(poi)

SpecFold == Init /\ [][NextFold]_vars

-----------------------------------------------------------------------------
(* Elevation lookup: GPXManager.lookup_elevations and                      *)
(* _lookup_elevation_batch of src/poi_manager.py.  An elevation, of a      *)
(* record or in a response of the service, is a number of tenths of a      *)
(* metre; a timeout is a number of quarter seconds, which keeps            *)
(* timeout * 1.5 exact for the two increases a batch of three attempts can *)
(* make.  The statistics lookup_elevations prints are left out: they do    *)
(* not enter what it returns.                                              *)

\* Seconds in the unit of timeout.
Seconds(s) == s * 4

\* A faulty variant of _remove_zero_elevations: records pass as they are.
_remove_zero_elevations_kept(l) == l

\* _remove_zero_elevations: a record whose ele is 0.0 is rebuilt by
\* POI(lat, lon, name, desc, ele=None, link), that is without its elevation
\* and with the default extensions.
_remove_zero_elevations(l) ==
  [i \in 1..Len(l) |->
     IF l[i].ele # None /\ l[i].ele[1] = 0
     THEN MkPOI(l[i].lat, l[i].lon, l[i].name, l[i].desc, None, l[i].link,
                None)
     ELSE l[i]]

\* [poi for poi in cleaned_pois if poi.ele is None]
NeedingElevation(l) == SelectSeq(l, LAMBDA poi : poi.ele = None)

\* batch_size = 50
batch_size == 50

\* pois_needing_elevation[i : i + batch_size], i counted from 0.
BatchAt(l, i) ==
  SubSeq(l, i + 1, IF i + batch_size < Len(l) THEN i + batch_size ELSE Len(l))

\* max_retries: int = 3
max_retries == 3

\* timeout = max(30, 30 + len(pois))
InitialTimeout(l) ==
  IF Seconds(30) >= Seconds(30 + Len(l)) THEN Seconds(30)
  ELSE Seconds(30 + Len(l))

\* timeout = min(timeout * 1.5, 120)
IncreasedTimeout(t) ==
  IF (t * 3) \div 2 <= Seconds(120) THEN (t * 3) \div 2 ELSE Seconds(120)

\* 2 ** attempt
RECURSIVE Pow2(_)
Pow2(k) == IF k = 0 THEN 1 ELSE 2 * Pow2(k - 1)

\* A faulty variant of UpdatedFromResults: an elevation of 0 is adopted.
UpdatedFromResults_zero_adopted(l, results) ==
  [i \in 1..Len(l) |->
     IF i <= Len(results) /\ results[i] # None /\ results[i][1] >= 0
     THEN [l[i] EXCEPT !.ele = Some(results[i][1])]
     ELSE l[i]]

\* The loop over enumerate(pois) on a parsed response: position i takes
\* results[i]'s elevation when there is one and it is > 0, and keeps the
\* record otherwise.  An entry of results is None (null) or Some(number).
UpdatedFromResults(l, results) ==
  [i \in 1..Len(l) |->
     IF i <= Len(results) /\ results[i] # None /\ results[i][1] > 0
     THEN [l[i] EXCEPT !.ele = Some(results[i][1])]
     ELSE l[i]]

\* The outcomes of requests.post(...) and of reading the response:
\*   kind "ok"             status 200, a JSON object; results is its list
\*                         'results' ([] when the key is missing)
\*   kind "invalid_json"   status 200, response.json() raises ValueError
\*   kind "bad_structure"  status 200, JSON that is not an object of lists
\*                         of objects with numbers: an AttributeError or
\*                         TypeError, caught by except Exception
\*   kind "status"         any other status code
\*   kind "timeout", "connection_error", "request_exception"
\*                         the exception requests.post raised
Response(kind, status, results) ==
  [kind |-> kind, status |-> status, results |-> results]

\* A faulty variant of Retries: nothing is retried.
Retries_never(r) == FALSE

\* A faulty variant of Retries: a client error is retried like a server
\* error.
Retries_client_errors(r) ==
  \/ r.kind \in {"invalid_json", "timeout", "connection_error",
                 "request_exception"}
  \/ r.kind = "status" /\ r.status >= 400

\* The outcomes after which the loop continues while attempts remain.
Retries(r) ==
  \/ r.kind \in {"invalid_json", "timeout", "connection_error",
                 "request_exception"}
  \/ r.kind = "status" /\ (r.status = 429 \/ r.status >= 500)

\* A faulty variant of BackoffSeconds: rate limiting waits like a server
\* error.
BackoffSeconds_uniform(r, k) ==
  IF r.kind = "timeout" THEN 0 ELSE Pow2(k)

\* The argument of time.sleep after attempt k got outcome r and before the
\* next attempt; 0 when the code does not sleep.
BackoffSeconds(r, k) ==
  IF r.kind = "timeout" THEN 0
  ELSE IF r.kind = "connection_error" \/ (r.kind = "status" /\ r.status = 429)
       THEN 5 * Pow2(k)
  ELSE Pow2(k)

\* attempt < max_retries - 1 is false.
LastAttempt(k) == k >= max_retries - 1

\* One iteration of _lookup_elevation_batch's loop, on outcome r of the
\* request: either the method returns (returned, out) or the loop continues
\* with the next attempt after a sleep and with a new timeout.
AttemptStep(l, k, t, r) ==
  IF r.kind = "ok"
  THEN [returned |-> TRUE, out |-> UpdatedFromResults(l, r.results),
        sleep |-> 0, timeout |-> t]
  ELSE IF Retries(r) /\ ~LastAttempt(k)
  THEN [returned |-> FALSE, out |-> <<>>, sleep |-> BackoffSeconds(r, k),
        timeout |-> IF r.kind = "timeout" THEN IncreasedTimeout(t) ELSE t]
  ELSE [returned |-> TRUE, out |-> l, sleep |-> 0, timeout |-> t]

\* A faulty variant of ReplaceFirst: the scan does not break, so every
\* record with u's lat, lon and name is replaced.
ReplaceFirst_every(l, u) ==
  [j \in 1..Len(l) |->
     IF u.lat = l[j].lat /\ u.lon = l[j].lon /\ u.name = l[j].name
     THEN u ELSE l[j]]

\* The inner loop of the reconciliation: updated_pois with the first record
\* that has u's lat, lon and name replaced by u (break after the first).
ReplaceFirst(l, u) ==
  LET matching == {j \in 1..Len(l) : /\ u.lat = l[j].lat
                                      /\ u.lon = l[j].lon
                                      /\ u.name = l[j].name}
  IN  IF matching = {} THEN l
      ELSE [l EXCEPT ![CHOOSE j \in matching : \A i \in matching : j <= i] = u]

\* "Replace POIs in the main list": the loop over batch_updated from its
\* k-th record on (an empty main list has nothing to replace).
RECURSIVE Reconciled(_, _, _)
Reconciled(l, updated, k) ==
  IF l = <<>> \/ k > Len(updated) THEN l
  ELSE Reconciled(ReplaceFirst(l, updated[k]), updated, k + 1)

\* sum(1 for poi in l if poi.ele is not None and poi.ele > 0)
CountElevated(l) ==
  Cardinality({i \in 1..Len(l) : l[i].ele # None /\ l[i].ele[1] > 0})

\* The adaptive delay after a batch, in tenths of a second.
PaceAfter(b, updated) ==
  IF CountElevated(updated) - CountElevated(b) < Len(b) \div 2 THEN 5 ELSE 1

-----------------------------------------------------------------------------
(* Inputs of the elevation lookup *)

\* EA lacks an elevation and carries a description, a link and extensions;
\* EB has EA's lat, lon and name and a known elevation; EZ has the
\* elevation 0.0 and extensions; EK has a known elevation.
EA == MkPOI(0, 0, Hut, <<"d">>, None, Some(<<"u">>), Some(<<"x">>))

EB == Plain(0, 0, Hut, Some(5000))

EZ == MkPOI(0, Metres(100), Cabin, <<"d">>, Some(0), None, Some(<<"x">>))

EK == Plain(0, Metres(150), Lodge, Some(5200))

ElevPOIs == {EA, EB, EZ, EK}

\* lookup_elevations is called on every list of at most MaxLookup of these,
MaxLookup == 3

\* and on lists of n distinct records without elevation: short batches, a
\* batch one short of full, a full batch, a full batch followed by a batch
\* of one, two full batches.
Filler(n) == [k \in 1..n |-> Plain(0, Metres(200 + k), Peak, None)]

LongSizes == {4, 5, 10, 25, 49, 50, 51, 100}

LookupInputs == ListsUpTo(ElevPOIs, MaxLookup) \cup {Filler(n) : n \in LongSizes}

\* _lookup_elevation_batch is also called on its own, by a caller that
\* batches otherwise than lookup_elevations does: on 90, 91 and 100 records.
DirectBatches == {Filler(n) : n \in {90, 91, 100}}

\* What the service returns as an elevation: null, 0, 120.4 m.
ElevValues == {None, Some(0), Some(1204)}

RECURSIVE SeqsOfLen(_, _)
SeqsOfLen(S, n) ==
  IF n = 0 THEN {<<>>}
  ELSE {Append(l, x) : l \in SeqsOfLen(S, n - 1), x \in S}

\* g elevations of 120.4 m followed by zeros, n in all.
GoodPrefix(g, n) == [i \in 1..n |-> IF i <= g THEN Some(1204) ELSE Some(0)]

\* The lists 'results' of a parsed response to a batch of b records: every
\* list of b values for a short batch; none, half, one less than half and
\* all of the elevations valid; elevations below sea level; one result too
\* few and one too many.
ResultsFor(b) ==
  (IF b <= MaxLookup THEN SeqsOfLen(ElevValues, b) ELSE {})
  \cup {GoodPrefix(g, b) : g \in {0, b \div 2, b} \cup {(b - 1) \div 2}}
  \cup {[i \in 1..b |-> Some(-50)]}
  \cup {GoodPrefix(b - 1, b - 1), GoodPrefix(b + 1, b + 1)}

Responses(b) ==
  {Response("ok", 200, results) : results \in ResultsFor(b)}
  \cup {Response("invalid_json", 200, <<>>), Response("bad_structure", 200, <<>>)}
  \cup {Response("status", status, <<>>) : status \in {429, 500, 400, 404}}
  \cup {Response(kind, 0, <<>>) :
          kind \in {"timeout", "connection_error", "request_exception"}}

-----------------------------------------------------------------------------
(* The elevation lookup, one request per step *)

\* lookup_elevations from its call to the first requests.post of its first
\* batch, or to its return when no record needs an elevation.
LookupElevations(l) ==
  /\ mode = "idle"
  /\ impl = "core"
  /\ LET cleaned_pois == _remove_zero_elevations(l)
         needing == NeedingElevation(cleaned_pois)
     IN  /\ input_pois' = l
         /\ pois_needing_elevation' = needing
         /\ updated_pois' = cleaned_pois
         /\ mode' = IF needing = <<>> THEN "lookup_done" ELSE "request"
         /\ batch' = BatchAt(needing, 0)
         /\ timeout' = IF needing = <<>> THEN 0
                       ELSE InitialTimeout(BatchAt(needing, 0))
  /\ batch_start' = 0
  /\ attempt' = 0
  /\ responses' = <<>>
  /\ timeouts' = <<>>
  /\ sleeps' = <<>>
  /\ batch_updated' = <<>>
  /\ pace' = 0
  /\ UNCHANGED <<impl, call, engine_vars, cache_vars>>

\* _lookup_elevation_batch(l) called on its own, up to its first request.
LookupElevationBatch(l) ==
  /\ mode = "idle"
  /\ impl = "core"
  /\ mode' = "batch_request"
  /\ batch' = l
  /\ timeout' = InitialTimeout(l)
  /\ attempt' = 0
  /\ responses' = <<>>
  /\ timeouts' = <<>>
  /\ sleeps' = <<>>
  /\ batch_updated' = <<>>
  /\ UNCHANGED <<impl, call, engine_vars, cache_vars, input_pois, pois_needing_elevation,
                 updated_pois, batch_start, pace>>

\* One iteration of _lookup_elevation_batch's loop: the request gets outcome
\* r, and the method returns or sleeps and goes on to the next request.
\* (The return after the loop, line 450, is never reached: the last
\* iteration returns on every outcome.)
LookupElevationBatchAttempt(r) ==
  /\ mode \in {"request", "batch_request"}
  /\ attempt < max_retries
  /\ LET step == AttemptStep(batch, attempt, timeout, r)
     IN  /\ responses' = Append(responses, r)
         /\ timeouts' = Append(timeouts, timeout)
         /\ sleeps' = Append(sleeps, step.sleep)
         /\ timeout' = step.timeout
         /\ mode' = IF ~step.returned THEN mode
                    ELSE IF mode = "request" THEN "returned"
                    ELSE "batch_returned"
         /\ attempt' = IF step.returned THEN attempt ELSE attempt + 1
         /\ batch_updated' = step.out
  /\ UNCHANGED <<impl, call, engine_vars, cache_vars, input_pois, pois_needing_elevation,
                 updated_pois, batch_start, batch, pace>>

\* lookup_elevations from the return of _lookup_elevation_batch: the batch
\* is replaced in the main list, the adaptive delay is slept, and the next
\* batch runs up to its first request or lookup_elevations returns.
ReplaceInMainList ==
  /\ mode = "returned"
  /\ updated_pois' = Reconciled(updated_pois, batch_updated, 1)
  /\ pace' = PaceAfter(batch, batch_updated)
  /\ batch_start' = batch_start + batch_size
  /\ IF batch_start + batch_size < Len(pois_needing_elevation)
     THEN /\ mode' = "request"
          /\ batch' = BatchAt(pois_needing_elevation, batch_start + batch_size)
          /\ timeout' = InitialTimeout(BatchAt(pois_needing_elevation,
                                               batch_start + batch_size))
          /\ attempt' = 0
          /\ responses' = <<>>
          /\ timeouts' = <<>>
          /\ sleeps' = <<>>
          /\ batch_updated' = <<>>
     ELSE /\ mode' = "lookup_done"
          /\ UNCHANGED <<batch, timeout, attempt, responses, timeouts, sleeps,
                         batch_updated>>
  /\ UNCHANGED <<impl, call, engine_vars, cache_vars, input_pois, pois_needing_elevation>>

NextLookup ==
  \/ /\ mode = "idle"
     /\ impl = "core"
     /\ \E l \in LookupInputs : LookupElevations(l)
  \/ /\ mode = "idle"
     /\ impl = "core"
     /\ \E l \in DirectBatches : LookupElevationBatch(l)
  \/ /\ mode \in {"request", "batch_request"}
     /\ \E r \in Responses(Len(batch)) : LookupElevationBatchAttempt(r)
  \/ ReplaceInMainList

SpecLookup == Init /\ [][NextLookup]_vars

-----------------------------------------------------------------------------
(* DistanceCache of src/poi_core.py *)

\* The cache key of a pair: the coordinates of the two records, the record
\* with the smaller (lat, lon) first.
cache_key(poi1, poi2) ==
  IF poi1.lat < poi2.lat \/ (poi1.lat = poi2.lat /\ poi1.lon < poi2.lon)
  THEN <<poi1.lat, poi1.lon, poi2.lat, poi2.lon>>
  ELSE <<poi2.lat, poi2.lon, poi1.lat, poi1.lon>>

\* list.remove(x): l without its first x.
RemoveFirst(l, x) ==
  LET at == CHOOSE i \in 1..Len(l) : l[i] = x /\ \A j \in 1..(i - 1) : l[j] # x
  IN  SubSeq(l, 1, at - 1) \o SubSeq(l, at + 1, Len(l))

\* A faulty variant of get_distance: a hit does not move the key to the end
\* of access_order.
get_distance_no_touch(c, order, size, poi1, poi2) ==
  LET key == cache_key(poi1, poi2)
  IN  IF key \in DOMAIN c
      THEN [cache |-> c, access_order |-> order, distance |-> c[key]]
      ELSE LET distance == distance_to(poi1, poi2)
               added == [k \in (DOMAIN c) \cup {key} |->
                           IF k = key THEN distance ELSE c[k]]
               appended == Append(order, key)
           IN  IF Cardinality(DOMAIN added) > size
               THEN [cache |-> [k \in (DOMAIN added) \ {Head(appended)} |->
                                  added[k]],
                     access_order |-> Tail(appended),
                     distance |-> distance]
               ELSE [cache |-> added, access_order |-> appended,
                     distance |-> distance]

\* DistanceCache.get_distance on a cache c with access order `order` and
\* max_size `size`: the new cache, the new access order, and the distance
\* returned.
get_distance(c, order, size, poi1, poi2) ==
  LET key == cache_key(poi1, poi2)
  IN  IF key \in DOMAIN c
      THEN [cache |-> c,
            access_order |-> Append(RemoveFirst(order, key), key),
            distance |-> c[key]]
      ELSE LET distance == distance_to(poi1, poi2)
               added == [k \in (DOMAIN c) \cup {key} |->
                           IF k = key THEN distance ELSE c[k]]
               appended == Append(order, key)
           IN  IF Cardinality(DOMAIN added) > size
               THEN [cache |-> [k \in (DOMAIN added) \ {Head(appended)} |->
                                  added[k]],
                     access_order |-> Tail(appended),
                     distance |-> distance]
               ELSE [cache |-> added, access_order |-> appended,
                     distance |-> distance]

\* The records get_distance is called on: two on one latitude, one north of
\* them.
FN == Plain(Metres(60), 0, Peak, None)

CachePOIs == {FA, FC, FN}

\* Bounds on the size of a cache and on the calls of a behaviour.
MaxCacheSize == 2

MaxCacheCalls == 4

\* DistanceCache(max_size = size).
DistanceCacheNew(size) ==
  /\ mode = "idle"
  /\ impl = "core"
  /\ mode' = "cache"
  /\ cache' = <<>>
  /\ access_order' = <<>>
  /\ max_size' = size
  /\ calls_made' = 0
  /\ UNCHANGED <<impl, call, engine_vars, lookup_vars>>

\* cache.get_distance(poi1, poi2).
GetDistance(poi1, poi2) ==
  /\ mode = "cache"
  /\ calls_made < MaxCacheCalls
  /\ LET r == get_distance(cache, access_order, max_size, poi1, poi2)
     IN  /\ cache' = r.cache
         /\ access_order' = r.access_order
         /\ call' = [fn |-> "get_distance", a |-> poi1, b |-> poi2,
                     out |-> r.distance]
  /\ calls_made' = calls_made + 1
  /\ UNCHANGED <<impl, mode, max_size, engine_vars, lookup_vars>>

NextCache ==
  \/ /\ mode = "idle"
     /\ impl = "core"
     /\ \E size \in 0..MaxCacheSize : DistanceCacheNew(size)
  \/ /\ mode = "cache"
     /\ \E poi1 \in CachePOIs, poi2 \in CachePOIs : GetDistance(poi1, poi2)

SpecCache == Init /\ [][NextCache]_vars

-----------------------------------------------------------------------------
\* Every operation of the model.
Next == NextPoi \/ NextRoute \/ NextGrid \/ NextFold \/ NextLookup \/ NextCache

Spec == Init /\ [][Next]_vars

-----------------------------------------------------------------------------
(* Claims *)

\* Every record handed to the run so far: the targets, then the sources.
AllInputs == target_pois \o source_pois

InRun == mode \in {"merge", "dedupe"}

SameName(a, b) == NameKey(a) = NameKey(b)

\* a and b are at most t apart.
Within(a, b, t) == DistLe(distance_to(a, b), t)

\* C1: is_duplicate(a, b, threshold) is true exactly when the names of a and
\* b are equal after trimming and case-folding or a and b are at most
\* threshold apart.
C1_DuplicateIffNameOrDistance ==
  call.fn = "is_duplicate" =>
    (call.out <=> (SameName(call.a, call.b) \/ Within(call.a, call.b, call.t)))

\* C2: on both algorithm paths, records whose names are all equal after
\* trimming and case-folding end up merged into one output record, however
\* far apart they are.
C2_SameNameMergedOnEveryPath ==
  ( /\ InRun
    /\ Len(target_pois) <= 1
    /\ Len(AllInputs) >= 2
    /\ \A i, j \in 1..Len(AllInputs) : SameName(AllInputs[i], AllInputs[j]) )
  => (Len(result_pois) = 1 /\ Len(result_pois_opt) = 1)

\* C3: on a grid of cell size 3 * d, find_nearby_pois(probe, d) returns
\* exactly the indices of the inserted records within d of the probe.
LinearScan(g, poi, d) ==
  {i \in 0..(Len(g.pois) - 1) :
     g.pois[i + 1] # None /\ Within(poi, g.pois[i + 1][1], d)}

C3_NearbyIsLinearScan ==
  call.fn = "find_nearby_pois" =>
    {call.out[k][1] : k \in 1..Len(call.out)} = LinearScan(grid, call.a, call.t)

\* C4: deduplicating a list in which no two records are duplicates returns
\* the same records in the same order, on the original and on the optimized
\* path.
NoDuplicatePairs(l) ==
  \A i, j \in 1..Len(l) :
    i < j => ~is_duplicate(impl, l[j], l[i], DefaultThreshold(impl))

C4_StableInputUnchanged ==
  (mode = "dedupe" /\ NoDuplicatePairs(source_pois))
  => (result_pois = source_pois /\ result_pois_opt = source_pois)

C4_Witness ==
  /\ mode = "dedupe"
  /\ Len(source_pois) = 3
  /\ NoDuplicatePairs(source_pois)
  /\ result_pois = source_pois
  /\ result_pois_opt = source_pois

\* C5: the threshold the duplicate predicate applies in a run is the
\* configured duplicate_threshold on both paths: two differently named
\* records are merged only if they are at most duplicate_threshold apart, and
\* the two paths decide alike.
C5_ConfiguredThresholdApplies ==
  ( /\ mode = "dedupe"
    /\ Len(source_pois) = 2
    /\ ~SameName(source_pois[1], source_pois[2]) )
  => /\ Len(result_pois) = 1
          => Within(source_pois[1], source_pois[2], duplicate_threshold)
     /\ Len(result_pois_opt) = 1
          => Within(source_pois[1], source_pois[2], duplicate_threshold)
     /\ Len(result_pois) = Len(result_pois_opt)

\* C6: when no incoming record had more than one accepted record that is
\* its duplicate, the original and the optimized algorithm return the same
\* list.
C6_PathsAgreeWhenUnambiguous ==
  (InRun /\ unambiguous) => result_pois = result_pois_opt

C8_LongerNameTiesKeepA ==
  call.fn = "merge_with" =>
    call.out.name = IF Len(call.b.name) > Len(call.a.name)
                    THEN call.b.name ELSE call.a.name

\* C8 as amended: merge_with takes the longer of the two names and keeps
\* a's name when they are equally long, except that poi_core.py's merge_with
\* takes b's name whenever a's name contains "waypoint" in any case.
C8_LongerNameUnlessWaypoint ==
  call.fn = "merge_with" =>
    call.out.name =
      IF \/ Len(call.b.name) > Len(call.a.name)
         \/ impl = "core" /\ Contains(Lower(call.a.name), Waypoint)
      THEN call.b.name ELSE call.a.name

C8_Witness ==
  /\ call.fn = "merge_with"
  /\ impl = "core"
  /\ call.a.name = WaypointName
  /\ call.b.name = Hut
  /\ call.out.name = Hut

\* C9: merge_with takes the (lat, lon) of the one record that has an
\* elevation when exactly one has it, and otherwise the means of the two
\* latitudes and of the two longitudes.
C9_CoordinatesByElevation ==
  call.fn = "merge_with" =>
    LET a == call.a
        b == call.b
        out == call.out
    IN  /\ (a.ele # None /\ b.ele = None)
             => (out.lat = a.lat /\ out.lon = a.lon)
        /\ (a.ele = None /\ b.ele # None)
             => (out.lat = b.lat /\ out.lon = b.lon)
        /\ ((a.ele = None) <=> (b.ele = None))
             => (2 * out.lat = a.lat + b.lat /\ 2 * out.lon = a.lon + b.lon)

C9_Witness ==
  /\ call.fn = "merge_with"
  /\ call.a.ele # None
  /\ call.b.ele # None
  /\ call.a.lon # call.b.lon
  /\ 2 * call.out.lon = call.a.lon + call.b.lon

\* C10: merge_with yields a's elevation when a has one and b's otherwise;
\* in a run an accepted record that has an elevation keeps one through every
\* later step, and every elevation in the output is the elevation of some
\* input record.
ElevationsFromInputs(result, inputs) ==
  \A i \in 1..Len(result) :
    result[i].ele # None =>
      \E j \in 1..Len(inputs) : inputs[j].ele = result[i].ele

ElevationKept(result, next) ==
  \A i \in 1..Len(result) :
    result[i].ele # None => (i <= Len(next) /\ next[i].ele # None)

C10_ElevationPreferredNeverAveraged ==
  [][ /\ call'.fn = "merge_with" =>
           call'.out.ele = IF call'.a.ele # None THEN call'.a.ele
                           ELSE call'.b.ele
      /\ (mode' \in {"merge", "dedupe"}) =>
           /\ ElevationsFromInputs(result_pois', AllInputs')
           /\ ElevationsFromInputs(result_pois_opt', AllInputs')
      /\ InRun => /\ ElevationKept(result_pois, result_pois')
                  /\ ElevationKept(result_pois_opt, result_pois_opt') ]_vars

C10_Witness ==
  /\ mode = "merge"
  /\ Len(target_pois) = 1
  /\ Len(source_pois) = 2
  /\ Len(result_pois) = 1
  /\ target_pois[1].ele = None
  /\ source_pois[1].ele # None
  /\ source_pois[2].ele # None
  /\ source_pois[2].ele # source_pois[1].ele
  /\ result_pois[1].ele = source_pois[1].ele

\* C11: find_nearby_pois returns its pairs in ascending order of distance,
\* and when a step of the optimized merge or deduplication merges the
\* incoming record, it merges it into an accepted record that is a duplicate
\* of it and that no other accepted duplicate of it is nearer than.
SortedAscending(nearby) ==
  \A k \in 1..(Len(nearby) - 1) : nearby[k][2] <= nearby[k + 1][2]

NearestDuplicate(result, poi, j) ==
  /\ is_duplicate(impl, poi, result[j], DefaultThreshold(impl))
  /\ \A i \in 1..Len(result) :
       is_duplicate(impl, poi, result[i], DefaultThreshold(impl))
         => distance_to(poi, result[j]) <= distance_to(poi, result[i])

C11_ClosestFirstMergesNearest ==
  [][ /\ call'.fn = "find_nearby_pois" => SortedAscending(call'.out)
      /\ ( /\ InRun
           /\ Len(source_pois') = Len(source_pois) + 1
           /\ Len(result_pois_opt') = Len(result_pois_opt) )
         => LET poi == source_pois'[Len(source_pois')]
            IN  \E j \in 1..Len(result_pois_opt) :
                  /\ result_pois_opt' =
                       [result_pois_opt EXCEPT
                          ![j] = merge_with(impl, result_pois_opt[j], poi)]
                  /\ NearestDuplicate(result_pois_opt, poi, j) ]_vars

\* C12: inserting a record again at the index it has leaves the answer of
\* every find_nearby_pois query as it was, and no query returns an index
\* more than once.
NoIndexTwice(nearby) ==
  \A k, l \in 1..Len(nearby) : k # l => nearby[k][1] # nearby[l][1]

C12_ReinsertionIdempotent ==
  [][ /\ (mode = "grid" /\ mode' = "grid" /\ grid'.pois = grid.pois)
         => \A q \in POIsOf(impl, GridPOIs) :
              find_nearby_pois(grid', q, duplicate_threshold)
                = find_nearby_pois(grid, q, duplicate_threshold)
      /\ call'.fn = "find_nearby_pois" => NoIndexTwice(call'.out) ]_vars

\* The states of a run of lookup_elevations.
InLookup == mode \in {"request", "returned", "lookup_done"}

\* The states of a call of _lookup_elevation_batch, by lookup_elevations or
\* on its own.
InBatch == InLookup \/ mode \in {"batch_request", "batch_returned"}

Requesting == mode \in {"request", "batch_request"}

\* The outcome of the last request of the batch.
LastResponse == responses[Len(responses)]

\* C13: no record of the working list of lookup_elevations, hence of the
\* list it returns, and no record a batch returns has the elevation 0.0;
\* every input record with elevation 0.0 is without elevation after the
\* cleaning and is among the records selected for lookup; and a record of
\* the working list gets a new elevation only from a response that carried
\* that value, a value > 0.
C13_NoZeroElevationReturned ==
  [][ /\ InLookup' =>
           /\ \A i \in 1..Len(updated_pois') : updated_pois'[i].ele # Some(0)
           /\ \A i \in 1..Len(batch_updated') : batch_updated'[i].ele # Some(0)
      /\ (mode = "idle" /\ InLookup') =>
           \A i \in 1..Len(input_pois') :
             input_pois'[i].ele = Some(0) =>
               /\ updated_pois'[i].ele = None
               /\ \E k \in 1..Len(pois_needing_elevation') :
                    pois_needing_elevation'[k] = updated_pois'[i]
      /\ mode = "returned" =>
           \A i \in 1..Len(updated_pois') :
             (updated_pois'[i].ele # updated_pois[i].ele
                /\ updated_pois'[i].ele # None)
             => /\ LastResponse.kind = "ok"
                /\ updated_pois'[i].ele[1] > 0
                /\ \E k \in 1..Len(LastResponse.results) :
                     LastResponse.results[k] = updated_pois'[i].ele ]_vars

C13_Witness ==
  /\ mode = "lookup_done"
  /\ input_pois = <<EZ, EA>>
  /\ LastResponse.kind = "ok"
  /\ LastResponse.results = <<Some(0), Some(1204)>>
  /\ updated_pois[1].ele = None
  /\ updated_pois[2].ele = Some(1204)

\* A batch has returned (and the next one has not begun).
BatchReturned ==
  mode \in {"returned", "lookup_done", "batch_returned"} /\ responses # <<>>

\* C14: when the last request of a batch got status 200 with a parsed body,
\* the batch returns one record per input record in input order: record i
\* with the i-th returned elevation when that is present and > 0, and
\* record i as it was when that elevation is 0 or null or when there is no
\* i-th result; results beyond the length of the batch are ignored.
C14_OneRecordPerPosition ==
  (BatchReturned /\ LastResponse.kind = "ok") =>
    LET results == LastResponse.results
    IN  /\ Len(batch_updated) = Len(batch)
        /\ \A i \in 1..Len(batch) :
             /\ (i <= Len(results) /\ results[i] # None /\ results[i][1] > 0)
                  => batch_updated[i] = [batch[i] EXCEPT !.ele = results[i]]
             /\ (i > Len(results) \/ results[i] = None \/ results[i] = Some(0))
                  => batch_updated[i] = batch[i]

\* The batch of three records that gets the elevations [120.4, 0, null].
C14_Witness ==
  /\ BatchReturned
  /\ Len(batch) = 3
  /\ LastResponse.kind = "ok"
  /\ LastResponse.results = <<Some(1204), Some(0), None>>
  /\ batch_updated[1].ele = Some(1204)
  /\ batch_updated[2].ele = None
  /\ batch_updated[3].ele = None

\* C15: lookup_elevations returns a list as long as its input in which
\* every record whose input elevation is known and not 0.0 stands unchanged
\* at its position.
C15_KnownElevationsPassThrough ==
  mode = "lookup_done" =>
    /\ Len(updated_pois) = Len(input_pois)
    /\ \A i \in 1..Len(input_pois) :
         (input_pois[i].ele # None /\ input_pois[i].ele # Some(0))
           => updated_pois[i] = input_pois[i]

\* The steps a run of lookup_elevations can still take: max_retries
\* requests and the return for every batch not yet replaced in the main
\* list; for _lookup_elevation_batch on its own, the requests left.
StepsLeft ==
  IF mode \in {"lookup_done", "batch_returned"} THEN 0
  ELSE IF mode = "batch_request" THEN max_retries - Len(responses)
  ELSE ((Len(pois_needing_elevation) - batch_start + batch_size - 1)
          \div batch_size) * (max_retries + 1)
       - (IF mode = "returned" THEN max_retries ELSE Len(responses))

\* C16: a batch makes at most max_retries requests and has returned once it
\* made that many; when every request got status 500 it made exactly
\* max_retries requests and returns its records as they were; and
\* lookup_elevations terminates: a batch that has not returned has an
\* attempt of its budget left to make, and every step lowers the number of
\* steps left, which is never negative.
C16_BoundedRetries ==
  /\ [](InBatch =>
          /\ Len(responses) <= max_retries
          /\ Requesting => Len(responses) < max_retries
          /\ (BatchReturned
                /\ \A k \in 1..Len(responses) :
                     responses[k].kind = "status" /\ responses[k].status = 500)
             => (Len(responses) = max_retries /\ batch_updated = batch)
          /\ Requesting => attempt < max_retries
          /\ StepsLeft >= 0)
  /\ [][InBatch => StepsLeft' < StepsLeft]_vars

C16_Witness ==
  /\ BatchReturned
  /\ Len(responses) = max_retries
  /\ \A k \in 1..Len(responses) :
       responses[k].kind = "status" /\ responses[k].status = 500
  /\ batch_updated = batch

\* A status of the client-error class other than 429.
ClientError(r) ==
  r.kind = "status" /\ r.status >= 400 /\ r.status < 500 /\ r.status # 429

\* C17: a request that gets a client error is the last of its batch, on
\* whatever attempt it was made: the batch has returned its records as they
\* were, and nothing was slept after that request.
C17_ClientErrorAbandonsBatch ==
  InBatch =>
    \A k \in 1..Len(responses) :
      ClientError(responses[k]) =>
        /\ k = Len(responses)
        /\ ~Requesting
        /\ batch_updated = batch
        /\ sleeps[k] = 0

C17_Witness ==
  /\ BatchReturned
  /\ Len(responses) = 2
  /\ responses[1].kind = "status" /\ responses[1].status = 500
  /\ ClientError(responses[2])
  /\ sleeps = <<1, 0>>
  /\ batch_updated = batch

\* C18: a request that gets status 200 with a malformed body (not JSON, or
\* JSON of another structure than the expected one) is a failed attempt:
\* while it is not the last of the budget, another request follows it.
C18_MalformedBodyRetried ==
  InBatch =>
    \A k \in 1..Len(responses) :
      (responses[k].kind \in {"invalid_json", "bad_structure"}
         /\ k < max_retries)
      => (k < Len(responses) \/ Requesting)

IsRateLimited(r) == r.kind = "status" /\ r.status = 429

IsServerError(r) == r.kind = "status" /\ r.status >= 500

\* The formulas of the waits: after failed attempt k = p - 1 that is not the
\* last of the budget, 5 * 2^k seconds for a 429 and 2^k seconds for a 5xx,
\* the former longer than the latter at every attempt; nothing after the last
\* attempt of the budget.
WaitFormulas ==
  /\ \A p \in 1..Len(responses) :
       /\ (p < max_retries /\ IsRateLimited(responses[p]))
            => sleeps[p] = 5 * Pow2(p - 1)
       /\ (p < max_retries /\ IsServerError(responses[p]))
            => sleeps[p] = Pow2(p - 1)
       /\ p = max_retries => sleeps[p] = 0
  /\ \A k \in 0..(max_retries - 2) : 5 * Pow2(k) > Pow2(k)

\* C20: after failed attempt k (0-based) that is not the last of the budget
\* the batch waits 5 * 2^k seconds on a 429 and 2^k seconds on a 5xx, the
\* former longer than the latter at every attempt, and no wait follows the
\* last attempt of the budget; of two such failures of the same kind in one
\* batch the later one waits longer.
C20_BackoffByKind ==
  InBatch =>
    /\ WaitFormulas
    /\ \A p \in 1..Len(responses) : \A q \in 1..(p - 1) :
         (/\ p < max_retries
          /\ \/ IsRateLimited(responses[q]) /\ IsRateLimited(responses[p])
             \/ IsServerError(responses[q]) /\ IsServerError(responses[p]))
         => sleeps[q] < sleeps[p]

\* Three rate-limited responses: waits of 5 s and 10 s, none after the third.
C20_Witness ==
  /\ mode = "returned"
  /\ Len(responses) = max_retries
  /\ \A p \in 1..max_retries : IsRateLimited(responses[p])
  /\ sleeps = <<5, 10, 0>>

\* C20 as stated: the waits of a batch grow from attempt to attempt, whatever
\* the failures are.  A 429 followed by a 500 waits 5 s, then 2 s.
C20_WaitsGrowEveryAttempt ==
  InBatch =>
    /\ WaitFormulas
    /\ \A p \in 1..Len(responses) : \A q \in 1..(p - 1) :
         (/\ p < max_retries
          /\ IsRateLimited(responses[q]) \/ IsServerError(responses[q])
          /\ IsRateLimited(responses[p]) \/ IsServerError(responses[p]))
         => sleeps[q] < sleeps[p]

\* The records of the returned batch that gained an elevation.
Enriched == CountElevated(batch_updated) - CountElevated(batch)

\* C21: after each batch of 1 to 50 records lookup_elevations sleeps 0.5 s
\* when fewer than half of the batch's records were enriched, in particular
\* when none was, and 0.1 s otherwise.
C21_LongerDelayOnLowSuccess ==
  [][mode = "returned" =>
       /\ Len(batch) \in 1..batch_size
       /\ pace' = IF 2 * Enriched < Len(batch) THEN 5 ELSE 1
       /\ Enriched = 0 => pace' = 5]_vars

\* C22: the list lookup_elevations returns has, at every position, the
\* extensions, the description and the link of the input record at that
\* position, whether its elevation was stripped, looked up or left alone.
C22_ExtensionsCarriedThrough ==
  mode = "lookup_done" =>
    /\ Len(updated_pois) = Len(input_pois)
    /\ \A i \in 1..Len(input_pois) :
         /\ updated_pois[i].extensions = input_pois[i].extensions
         /\ updated_pois[i].desc = input_pois[i].desc
         /\ updated_pois[i].link = input_pois[i].link

\* The incoming record of a step of a merge or deduplication run.
Incoming == source_pois'[Len(source_pois')]

FoldStep == mode \in {"merge", "dedupe"} /\ source_pois' # source_pois

\* Accepted record i (1-based) of the original path is a duplicate of the
\* incoming record.
DuplicateOfIncoming(i) ==
  is_duplicate(impl, Incoming, result_pois[i], DefaultThreshold(impl))

\* C23: a step of the naive merge or deduplication takes the next incoming
\* record and either replaces the lowest-index accepted record that is a
\* duplicate of it by existing.merge_with(incoming), in place, or, when
\* there is none, appends it; every other accepted record keeps its value
\* and its position.
C23_NaiveStepMergesLowestOrAppends ==
  [][FoldStep =>
       /\ source_pois' = Append(source_pois, Incoming)
       /\ \/ /\ \A i \in 1..Len(result_pois) : ~DuplicateOfIncoming(i)
             /\ result_pois' = Append(result_pois, Incoming)
          \/ \E i \in 1..Len(result_pois) :
               /\ DuplicateOfIncoming(i)
               /\ \A j \in 1..(i - 1) : ~DuplicateOfIncoming(j)
               /\ Len(result_pois') = Len(result_pois)
               /\ result_pois'[i] = merge_with(impl, result_pois[i], Incoming)
               /\ \A j \in 1..Len(result_pois) :
                    j # i => result_pois'[j] = result_pois[j]]_vars

\* FB is a duplicate of both accepted records, FA at index 0 and FC at
\* index 1, and has been merged into FA.
C23_Witness ==
  /\ impl = "core"
  /\ mode = "dedupe"
  /\ source_pois = <<FA, FC, FB>>
  /\ result_pois = <<merge_with(impl, FA, FB), FC>>

\* C24: merge_pois returns the greedy fold of the source records into the
\* target for every input; for an empty target that is what
\* deduplicate_pois returns for the source, the duplicates among the source
\* records merged with each other.
C24_MergeIntoEmptyIsDedupe ==
  call.fn = "merge_pois_on" =>
    /\ call.out = merge_pois_folds_empty(impl, duplicate_threshold,
                                         call.target, call.source)
    /\ call.target = <<>> =>
         call.out = deduplicate_pois(impl, duplicate_threshold, call.source)

\* The fields by which a looked-up record finds its place in the working
\* list.
Key(poi) == <<poi.lat, poi.lon, poi.name>>

\* The records of the returned batch that have the key of the record at
\* position j of the working list.
UpdatesFor(j) ==
  {k \in 1..Len(batch_updated) : Key(batch_updated[k]) = Key(updated_pois[j])}

\* Position j is the first of the working list with its key.
FirstWithKey(j) == \A i \in 1..(j - 1) : Key(updated_pois[i]) # Key(updated_pois[j])

\* C25: when a returned batch is merged back into the working list, each of
\* its records replaces the first record of the list with its lat, lon and
\* name and no other record changes: a position that is not the first with
\* its key, or whose key no record of the batch has, keeps its record, and
\* of records that share a key only the first is updated.
C25_OnlyFirstMatchReplaced ==
  [][mode = "returned" =>
       /\ Len(updated_pois') = Len(updated_pois)
       /\ \A j \in 1..Len(updated_pois) :
            updated_pois'[j] =
              IF FirstWithKey(j) /\ UpdatesFor(j) # {}
              THEN batch_updated[CHOOSE k \in UpdatesFor(j) :
                                   \A m \in UpdatesFor(j) : m <= k]
              ELSE updated_pois[j]]_vars

\* Two records with the same lat, lon and name, both looked up with
\* success: the first has the elevation, the second is as it was.
C25_Witness ==
  /\ mode = "lookup_done"
  /\ input_pois = <<EA, EA>>
  /\ LastResponse.kind = "ok"
  /\ LastResponse.results = <<Some(1204), Some(1204)>>
  /\ updated_pois = <<[EA EXCEPT !.ele = Some(1204)], EA>>

\* The indices in a bucket.
InBucket(bucket) == {bucket[k] : k \in 1..Len(bucket)}

\* C26: every record of the grid is in the bucket of the cell
\* (floor(lat / cell size), floor(lon / cell size)) and in no other bucket,
\* at positive and at negative coordinates.
C26_CellIsFloorOfCoordinates ==
  mode = "grid" =>
    \A i \in 1..Len(grid.pois) :
      grid.pois[i] # None =>
        LET poi == grid.pois[i][1]
            cell == <<poi.lat \div grid.cell_size, poi.lon \div grid.cell_size>>
        IN  /\ cell \in DOMAIN grid.grid
            /\ (i - 1) \in InBucket(grid.grid[cell])
            /\ \A d \in (DOMAIN grid.grid) \ {cell} :
                 (i - 1) \notin InBucket(grid.grid[d])

\* No record of l is a duplicate of another one, asked either way round.
PairwiseDistinct(l) ==
  \A i, j \in 1..Len(l) :
    i # j => ~is_duplicate(impl, l[i], l[j], DefaultThreshold(impl))

\* C27: the list deduplicate_pois returns, on the original and on the
\* optimized path, holds no two records that are duplicates of each other,
\* and deduplicating it again returns it unchanged.
C27_DedupeOutputHasNoDuplicates ==
  mode = "dedupe" =>
    /\ PairwiseDistinct(result_pois)
    /\ PairwiseDistinct(result_pois_opt)
    /\ deduplicate_pois(impl, duplicate_threshold, result_pois) = result_pois

\* The buckets of the grid that hold index i.
BucketsHolding(i) == {c \in DOMAIN grid.grid : i \in InBucket(grid.grid[c])}

\* C28: in a run of the optimized merge or deduplication the grid holds
\* every accepted index 0..len(result) - 1 in exactly one bucket, once, and
\* the record it stores for index i has the coordinates accepted record i
\* has now, also after a merge has replaced that record.
C28_GridTracksAcceptedRecords ==
  InRun =>
    /\ Len(grid.pois) = Len(result_pois_opt)
    /\ BucketEntries(grid, DOMAIN grid.grid) = Len(result_pois_opt)
    /\ \A i \in 1..Len(result_pois_opt) :
         /\ Cardinality(BucketsHolding(i - 1)) = 1
         /\ grid.pois[i] # None
         /\ grid.pois[i][1].lat = result_pois_opt[i].lat
         /\ grid.pois[i][1].lon = result_pois_opt[i].lon

\* record is what base becomes when some of the records srcs[k],
\* srcs[k+1], ... are merged into it, in their order.
RECURSIVE FoldedFrom(_, _, _, _)
FoldedFrom(record, base, srcs, k) ==
  IF k > Len(srcs) THEN record = base
  ELSE \/ FoldedFrom(record, base, srcs, k + 1)
       \/ FoldedFrom(record, merge_with(impl, base, srcs[k]), srcs, k + 1)

\* The records result[k], result[k+1], ... stem from source records after
\* the first `last` ones, in their input order, each folded with some of the
\* source records after it.  (Taking the earliest source record that fits
\* leaves the most for the records that follow.)
RECURSIVE AppendedInOrder(_, _, _)
AppendedInOrder(result, k, last) ==
  IF k > Len(result) THEN TRUE
  ELSE LET fits == {j \in (last + 1)..Len(source_pois) :
                      FoldedFrom(result[k], source_pois[j], source_pois, j + 1)}
       IN  /\ fits # {}
           /\ AppendedInOrder(result, k + 1,
                              CHOOSE j \in fits : \A m \in fits : j <= m)

\* result is the target, each record folded with some of the source records
\* processed so far, followed by source records in their input order, each
\* folded with some of the source records after it.
FoldShape(result) ==
  LET n == Len(target_pois)
  IN  /\ n <= Len(result)
      /\ Len(result) <= n + Len(source_pois)
      /\ \A i \in 1..n : FoldedFrom(result[i], target_pois[i], source_pois, 1)
      /\ AppendedInOrder(result, n + 1, 0)

\* A step leaves every accepted record where it is, as it is or merged with
\* the incoming record, and adds at most one record, at the end.
KeepsAccepted(result, next) ==
  /\ Len(next) \in {Len(result), Len(result) + 1}
  /\ \A i \in 1..Len(result) :
       \/ next[i] = result[i]
       \/ next[i] = merge_with(impl, result[i], Incoming)
  /\ Len(next) = Len(result) + 1 => next[Len(next)] = Incoming

\* C29: a merge or deduplication run never changes its input lists and
\* never drops or reorders accepted records: after every step
\* len(target) <= len(result) <= len(target) + the number of source records
\* processed, result[i] for i < len(target) is target[i] folded with zero or
\* more source records, and the appended source records keep their input
\* order; on the original and on the optimized path.
C29_AcceptedRecordsKeepTheirPlace ==
  /\ [](InRun => FoldShape(result_pois) /\ FoldShape(result_pois_opt))
  /\ [][FoldStep =>
          /\ target_pois' = target_pois
          /\ source_pois' = Append(source_pois, Incoming)
          /\ KeepsAccepted(result_pois, result_pois')
          /\ KeepsAccepted(result_pois_opt, result_pois_opt')]_vars

\* A merge into the target <<FA>>: FC is appended, and FB is merged into FA
\* on the original path and into FC, the closer one, on the optimized path.
C29_Witness ==
  /\ impl = "core"
  /\ mode = "merge"
  /\ target_pois = <<FA>>
  /\ source_pois = <<FC, FB>>
  /\ result_pois = <<merge_with(impl, FA, FB), FC>>
  /\ result_pois_opt = <<FA, merge_with(impl, FC, FB)>>

\* The elements of a sequence.
Range(l) == {l[i] : i \in 1..Len(l)}

\* l without the element x, the others in their order.
Without(l, x) == SelectSeq(l, LAMBDA y : y # x)

\* The key of the call a step makes on the cache.
CalledKey == cache_key(call'.a, call'.b)

\* C30: after any sequence of get_distance calls the cache holds at most
\* max_size entries and access_order lists exactly the cache's keys, each
\* once; a hit moves its key to the end of access_order, a miss appends its
\* key, and a miss on a full cache evicts the key at the front, the least
\* recently used; get_distance(a, b) and get_distance(b, a) use the same key
\* and return the same value.
C30_CacheIsBoundedLRU ==
  /\ [](mode = "cache" =>
          /\ Cardinality(DOMAIN cache) <= max_size
          /\ Range(access_order) = DOMAIN cache
          /\ Len(access_order) = Cardinality(DOMAIN cache)
          /\ \A a \in CachePOIs, b \in CachePOIs :
               /\ cache_key(a, b) = cache_key(b, a)
               /\ get_distance(cache, access_order, max_size, a, b).distance
                    = get_distance(cache, access_order, max_size, b, a).distance)
  /\ [][(mode = "cache" /\ calls_made' # calls_made) =>
          /\ call'.out = distance_to(call'.a, call'.b)
          /\ IF CalledKey \in DOMAIN cache
             THEN /\ DOMAIN cache' = DOMAIN cache
                  /\ access_order'
                       = Append(Without(access_order, CalledKey), CalledKey)
             ELSE IF Cardinality(DOMAIN cache) < max_size
             THEN /\ DOMAIN cache' = (DOMAIN cache) \cup {CalledKey}
                  /\ access_order' = Append(access_order, CalledKey)
             ELSE /\ access_order' = Tail(Append(access_order, CalledKey))
                  /\ DOMAIN cache' = ((DOMAIN cache) \cup {CalledKey})
                                       \ {Head(Append(access_order, CalledKey))}
         ]_vars

\* A cache of two entries after four calls: (FA, FC) and (FA, FN) missed,
\* (FC, FA) hit, and (FC, FN) missed and evicted the key of (FA, FN).
C30_Witness ==
  /\ mode = "cache"
  /\ max_size = 2
  /\ calls_made = 4
  /\ call.a = FC
  /\ call.b = FN
  /\ access_order = <<cache_key(FA, FC), cache_key(FC, FN)>>
  /\ DOMAIN cache = {cache_key(FA, FC), cache_key(FC, FN)}

=============================================================================
